---- MODULE Spec2Model ----
(***************************************************************************)
(* Model of clippy's redundant_static_lifetimes early lint pass            *)
(* (src/tools/clippy/clippy_lints/src/redundant_static_lifetimes.rs).      *)
(*                                                                         *)
(* A declaration's written type is a syntax tree.  Its source text is a    *)
(* sequence of tokens and a span is a half-open range <<lo, hi>> of token  *)
(* offsets into that text.  The pass is driven one declaration at a time   *)
(* through the EarlyLintPass hooks; the diagnostics of the most recent     *)
(* hook call are kept in diags.                                            *)
(***************************************************************************)
EXTENDS Integers, Sequences, FiniteSets, TLC

\* Largest number of nodes of an enumerated type-syntax tree.
MaxNodes == 4

\* Largest number of hook calls made on one pass instance.
MaxItems == 2

(***************************************************************************)
(* Type syntax (rustc_ast::ast::Ty / TyKind), as written in the source.    *)
(***************************************************************************)
StaticLifetime == "'static"
NoLt == ""
Lifetimes == {NoLt, StaticLifetime, "'a"}

Path(n) == [kind |-> "Path", lt |-> NoLt, name |-> n, elems |-> <<>>]
Rptr(l, t) == [kind |-> "Rptr", lt |-> l, name |-> "", elems |-> <<t>>]
Array(t) == [kind |-> "Array", lt |-> NoLt, name |-> "", elems |-> <<t>>]
Slice(t) == [kind |-> "Slice", lt |-> NoLt, name |-> "", elems |-> <<t>>]
Tup(ts) == [kind |-> "Tup", lt |-> NoLt, name |-> "", elems |-> ts]
BareFn(t) == [kind |-> "BareFn", lt |-> NoLt, name |-> "", elems |-> <<t>>]

Unary(t) ==
  {Rptr(l, t) : l \in Lifetimes} \cup {Array(t), Slice(t), BareFn(t)}

RECURSIVE Sized(_)
RECURSIVE Forest(_)
\* All written types with exactly n nodes.
Sized(n) ==
  IF n = 1 THEN {Path("str"), Tup(<<>>)}
  ELSE UNION {Unary(t) : t \in Sized(n - 1)}
       \cup {Tup(ts) : ts \in Forest(n - 1)}

\* All non-empty sequences of written types with m nodes in total.
Forest(m) ==
  IF m = 0 THEN {<<>>}
  ELSE UNION {{<<t>> \o rest : t \in Sized(k), rest \in Forest(m - k)} :
              k \in 1..m}

\* The type of the lint's documentation example.
DocExampleType ==
  Rptr(StaticLifetime,
       Slice(Tup(<<Rptr(StaticLifetime, Path("str")),
                   Rptr(StaticLifetime, Path("str")),
                   BareFn(Rptr(NoLt, Path("Bar")))>>)))

\* [&'static [&'static str]; N]
NestedArrayType ==
  Array(Rptr(StaticLifetime, Slice(Rptr(StaticLifetime, Path("str")))))

\* (&'static str, &'static str)
PairType ==
  Tup(<<Rptr(StaticLifetime, Path("str")), Rptr(StaticLifetime, Path("str"))>>)

\* Every enumerated type, the documentation example and two further
\* nested types.
Types ==
  UNION {Sized(n) : n \in 1..MaxNodes}
  \cup {DocExampleType, NestedArrayType, PairType}

(***************************************************************************)
(* Source text and spans of a written type.                                *)
(***************************************************************************)
RECURSIVE Render(_)
RECURSIVE RenderElems(_, _)
RenderElems(ts, i) ==
  IF i > Len(ts) THEN <<>>
  ELSE Render(ts[i])
       \o (IF i < Len(ts) \/ Len(ts) = 1 THEN <<",">> ELSE <<>>)
       \o RenderElems(ts, i + 1)

Render(t) ==
  CASE t.kind = "Path" -> <<t.name>>
    [] t.kind = "Rptr" ->
         <<"&">> \o (IF t.lt = NoLt THEN <<>> ELSE <<t.lt>>)
         \o Render(t.elems[1])
    [] t.kind = "Array" -> <<"[">> \o Render(t.elems[1]) \o <<";", "N", "]">>
    [] t.kind = "Slice" -> <<"[">> \o Render(t.elems[1]) \o <<"]">>
    [] t.kind = "Tup" -> <<"(">> \o RenderElems(t.elems, 1) \o <<")">>
    [] t.kind = "BareFn" ->
         <<"fn", "(">> \o Render(t.elems[1]) \o <<")", "->", "bool">>

NoLifetime == [some |-> FALSE, name |-> "", span |-> <<0, 0>>]

RECURSIVE Parse(_, _)
RECURSIVE ParseElems(_, _, _)
ParseElems(ts, i, lo) ==
  IF i > Len(ts) THEN <<>>
  ELSE <<Parse(ts[i], lo)>>
       \o ParseElems(ts, i + 1, lo + Len(Render(ts[i])) + 1)

\* The syntax tree of written type t whose text starts at offset lo: every
\* node carries the span of its own text, every lifetime its own span.
Parse(t, lo) ==
  LET hi == lo + Len(Render(t))
      first == CASE t.kind = "Rptr" -> IF t.lt = NoLt THEN lo + 1 ELSE lo + 2
                 [] t.kind = "BareFn" -> lo + 2
                 [] OTHER -> lo + 1
  IN [kind |-> t.kind,
      span |-> <<lo, hi>>,
      lifetime |-> IF t.kind = "Rptr" /\ t.lt # NoLt
                   THEN [some |-> TRUE, name |-> t.lt, span |-> <<lo + 1, lo + 2>>]
                   ELSE NoLifetime,
      name |-> t.name,
      elems |-> ParseElems(t.elems, 1, first)]

\* utils::snippet: the source text a span covers, or the default.
snippet(cx, span, default) ==
  IF 0 <= span[1] /\ span[1] <= span[2] /\ span[2] <= Len(cx.src)
  THEN SubSeq(cx.src, span[1] + 1, span[2])
  ELSE <<default>>

(***************************************************************************)
(* RedundantStaticLifetimes::visit_type                                    *)
(***************************************************************************)
\* Message text is a sequence of pieces; this piece is the grave accent
\* character (U+0060) that delimits code in a message.
Backtick == "U+0060"

\* The pass is a unit struct.
RedundantStaticLifetimes == <<>>

Eligible_WithRptr(kind) == kind \in {"Path", "Slice", "Array", "Tup", "Rptr"}

\* The inner kinds for which the lint fires.
Eligible(kind) == kind \in {"Path", "Slice", "Array", "Tup"}

\* The condition under which a reference is linted.
flagged(ty) ==
  /\ ty.kind = "Rptr"
  /\ ty.lifetime.some
  /\ Eligible(ty.elems[1].kind)
  /\ ty.lifetime.name = StaticLifetime

span_lint_and_then_Merged(cx, ty, reason) ==
  LET borrow_type == ty.elems[1]
      NotStatic(tok) == tok # StaticLifetime
      snip == SelectSeq(snippet(cx, borrow_type.span, "<type>"), NotStatic)
      sugg == <<"&">> \o snip
  IN [lint |-> "REDUNDANT_STATIC_LIFETIMES",
      span |-> ty.lifetime.span,
      msg |-> reason,
      suggestions |-> <<[span |-> ty.span,
                         msg |-> <<"consider removing ", Backtick, "'static", Backtick>>,
                         sugg |-> sugg,
                         applicability |-> "MachineApplicable"]>>]

span_lint_and_then_WholeSpan(cx, ty, reason) ==
  LET borrow_type == ty.elems[1]
      snip == snippet(cx, borrow_type.span, "<type>")
      sugg == <<"&">> \o snip
  IN [lint |-> "REDUNDANT_STATIC_LIFETIMES",
      span |-> ty.span,
      msg |-> reason,
      suggestions |-> <<[span |-> ty.span,
                         msg |-> <<"consider removing ", Backtick, "'static", Backtick>>,
                         sugg |-> sugg,
                         applicability |-> "MachineApplicable"]>>]

\* The diagnostic built for a linted reference.
span_lint_and_then(cx, ty, reason) ==
  LET borrow_type == ty.elems[1]
      snip == snippet(cx, borrow_type.span, "<type>")
      sugg == <<"&">> \o snip
  IN [lint |-> "REDUNDANT_STATIC_LIFETIMES",
      span |-> ty.lifetime.span,
      msg |-> reason,
      suggestions |-> <<[span |-> ty.span,
                         msg |-> <<"consider removing ", Backtick, "'static", Backtick>>,
                         sugg |-> sugg,
                         applicability |-> "MachineApplicable"]>>]

Recurse_StopAtFirstMatch(ty) ==
  CASE ty.kind = "Array" -> ty.elems
    [] ty.kind = "Tup" -> ty.elems
    [] ty.kind = "Rptr" -> IF flagged(ty) THEN <<>> ELSE ty.elems
    [] ty.kind = "Slice" -> ty.elems
    [] OTHER -> <<>>

Recurse_IntoOther(ty) == ty.elems

Recurse_FirstElem(ty) ==
  CASE ty.kind = "Array" -> ty.elems
    [] ty.kind = "Tup" -> IF ty.elems = <<>> THEN <<>> ELSE <<ty.elems[1]>>
    [] ty.kind = "Rptr" -> ty.elems
    [] ty.kind = "Slice" -> ty.elems
    [] OTHER -> <<>>

Recurse_Reversed(ty) ==
  CASE ty.kind = "Array" -> ty.elems
    [] ty.kind = "Tup" ->
         [i \in 1..Len(ty.elems) |-> ty.elems[Len(ty.elems) + 1 - i]]
    [] ty.kind = "Rptr" -> ty.elems
    [] ty.kind = "Slice" -> ty.elems
    [] OTHER -> <<>>

\* The nodes visit_type calls itself on, in call order.
Recurse(ty) ==
  CASE ty.kind = "Array" -> ty.elems
    [] ty.kind = "Tup" -> ty.elems
    [] ty.kind = "Rptr" -> ty.elems
    [] ty.kind = "Slice" -> ty.elems
    [] OTHER -> <<>>

RECURSIVE visit_type(_, _, _)
RECURSIVE visit_all(_, _, _, _)
visit_all(tys, i, cx, reason) ==
  IF i > Len(tys) THEN [visited |-> <<>>, diags |-> <<>>]
  ELSE LET a == visit_type(tys[i], cx, reason)
           b == visit_all(tys, i + 1, cx, reason)
       IN [visited |-> a.visited \o b.visited, diags |-> a.diags \o b.diags]

\* The spans of the nodes visited and the diagnostics emitted, in order.
visit_type(ty, cx, reason) ==
  LET here == IF flagged(ty) THEN <<span_lint_and_then(cx, ty, reason)>>
              ELSE <<>>
      below == visit_all(Recurse(ty), 1, cx, reason)
  IN [visited |-> <<ty.span>> \o below.visited,
      diags |-> here \o below.diags]

(***************************************************************************)
(* EarlyLintPass hooks                                                     *)
(***************************************************************************)
ItemKinds == {"Const", "Static", "TyAlias"}
Containers == {"none", "trait", "impl"}

\* A declaration: a module-level item (container "none") or an associated
\* constant of a trait or impl block.
DeclarationsOf(tys) ==
  {d \in [container : Containers, kind : ItemKinds,
          from_expansion : BOOLEAN, ty : tys] :
     d.container # "none" => d.kind = "Const"}

Declarations == DeclarationsOf(Types)

Cx(item) == [src |-> Render(item.ty)]
Ast(item) == Parse(item.ty, 0)

ConstReason ==
  <<"Constants have by default a ", Backtick, "'static", Backtick, " lifetime">>
StaticReason ==
  <<"Statics have by default a ", Backtick, "'static", Backtick, " lifetime">>

Nothing == [visited |-> <<>>, diags |-> <<>>]

check_item_IgnoreExpansion(self, cx, item) ==
  LET var_type == Ast(item)
      c == IF item.kind = "Const"
           THEN <<[ty |-> var_type.span, reason |-> ConstReason]>> ELSE <<>>
      s == IF item.kind = "Static"
           THEN <<[ty |-> var_type.span, reason |-> StaticReason]>> ELSE <<>>
      vc == IF c # <<>> THEN visit_type(var_type, cx, ConstReason) ELSE Nothing
      vs == IF s # <<>> THEN visit_type(var_type, cx, StaticReason) ELSE Nothing
  IN [self |-> self,
      calls |-> c \o s,
      visited |-> vc.visited \o vs.visited,
      diags |-> vc.diags \o vs.diags]

check_item_OneReason(self, cx, item) ==
  LET var_type == Ast(item)
      c == IF ~item.from_expansion /\ item.kind = "Const"
           THEN <<[ty |-> var_type.span, reason |-> ConstReason]>> ELSE <<>>
      s == IF ~item.from_expansion /\ item.kind = "Static"
           THEN <<[ty |-> var_type.span, reason |-> ConstReason]>> ELSE <<>>
      vc == IF c # <<>> THEN visit_type(var_type, cx, ConstReason) ELSE Nothing
      vs == IF s # <<>> THEN visit_type(var_type, cx, ConstReason) ELSE Nothing
  IN [self |-> self,
      calls |-> c \o s,
      visited |-> vc.visited \o vs.visited,
      diags |-> vc.diags \o vs.diags]

check_item_Stateful(self, cx, item) ==
  LET var_type == Ast(item)
      rc == IF self = <<>> THEN ConstReason ELSE self[1]
      rs == IF self = <<>> THEN StaticReason ELSE self[1]
      c == IF ~item.from_expansion /\ item.kind = "Const"
           THEN <<[ty |-> var_type.span, reason |-> rc]>> ELSE <<>>
      s == IF ~item.from_expansion /\ item.kind = "Static"
           THEN <<[ty |-> var_type.span, reason |-> rs]>> ELSE <<>>
      vc == IF c # <<>> THEN visit_type(var_type, cx, rc) ELSE Nothing
      vs == IF s # <<>> THEN visit_type(var_type, cx, rs) ELSE Nothing
  IN [self |-> IF c \o s = <<>> THEN self ELSE <<(c \o s)[1].reason>>,
      calls |-> c \o s,
      visited |-> vc.visited \o vs.visited,
      diags |-> vc.diags \o vs.diags]

\* check_item: the pass afterwards, the top-level visit_type calls made,
\* the nodes visited and the diagnostics emitted.
check_item(self, cx, item) ==
  LET var_type == Ast(item)
      c == IF ~item.from_expansion /\ item.kind = "Const"
           THEN <<[ty |-> var_type.span, reason |-> ConstReason]>> ELSE <<>>
      s == IF ~item.from_expansion /\ item.kind = "Static"
           THEN <<[ty |-> var_type.span, reason |-> StaticReason]>> ELSE <<>>
      vc == IF c # <<>> THEN visit_type(var_type, cx, ConstReason) ELSE Nothing
      vs == IF s # <<>> THEN visit_type(var_type, cx, StaticReason) ELSE Nothing
  IN [self |-> self,
      calls |-> c \o s,
      visited |-> vc.visited \o vs.visited,
      diags |-> vc.diags \o vs.diags]

\* The hooks the pass does not override do nothing.
check_trait_item(self, cx, item) ==
  [self |-> self, calls |-> <<>>, visited |-> <<>>, diags |-> <<>>]

check_impl_item(self, cx, item) ==
  [self |-> self, calls |-> <<>>, visited |-> <<>>, diags |-> <<>>]

(***************************************************************************)
(* Applying the suggestions                                                *)
(***************************************************************************)
RECURSIVE Fix(_, _)
RECURSIVE FixElems(_, _, _)
FixElems(tys, i, spans) ==
  IF i > Len(tys) THEN <<>>
  ELSE <<Fix(tys[i], spans)>> \o FixElems(tys, i + 1, spans)

\* The written type of tree ty once every reference whose lifetime span is
\* in spans has lost its lifetime.
Fix(ty, spans) ==
  [kind |-> ty.kind,
   lt |-> IF ty.lifetime.some /\ ty.lifetime.span \notin spans
          THEN ty.lifetime.name ELSE NoLt,
   name |-> ty.name,
   elems |-> FixElems(ty.elems, 1, spans)]

ApplyAll(item, ds) ==
  [item EXCEPT !.ty = Fix(Ast(item), {ds[i].span : i \in 1..Len(ds)})]

(***************************************************************************)
(* State machine                                                           *)
(***************************************************************************)
VARIABLES
  pass,     \* the RedundantStaticLifetimes instance
  item,     \* the declaration being dispatched
  phase,    \* "pending" before its hook has run, "checked" after
  fixed,    \* item is the outcome of applying the previous suggestions
  nchecked, \* number of hook calls made on pass so far
  calls,    \* top-level visit_type calls of the last hook call
  visited,  \* spans of the nodes visit_type was called on, in order
  diags     \* diagnostics emitted by the last hook call, in order

vars == <<pass, item, phase, fixed, nchecked, calls, visited, diags>>

Init ==
  /\ pass = RedundantStaticLifetimes
  /\ item \in Declarations
  /\ phase = "pending"
  /\ fixed = FALSE
  /\ nchecked = 0
  /\ calls = <<>>
  /\ visited = <<>>
  /\ diags = <<>>

Ran(r) ==
  /\ pass' = r.self
  /\ calls' = r.calls
  /\ visited' = r.visited
  /\ diags' = r.diags
  /\ phase' = "checked"
  /\ nchecked' = nchecked + 1
  /\ UNCHANGED <<item, fixed>>

CheckItem ==
  /\ phase = "pending"
  /\ item.container = "none"
  /\ Ran(check_item(pass, Cx(item), item))

CheckTraitItem ==
  /\ phase = "pending"
  /\ item.container = "trait"
  /\ Ran(check_trait_item(pass, Cx(item), item))

CheckImplItem ==
  /\ phase = "pending"
  /\ item.container = "impl"
  /\ Ran(check_impl_item(pass, Cx(item), item))

\* The suggestions of the last check are applied to the declaration.
ApplyFix ==
  /\ phase = "checked"
  /\ nchecked < MaxItems
  /\ diags # <<>>
  /\ item' = ApplyAll(item, diags)
  /\ fixed' = TRUE
  /\ phase' = "pending"
  /\ calls' = <<>>
  /\ visited' = <<>>
  /\ diags' = <<>>
  /\ UNCHANGED <<pass, nchecked>>

\* The dispatcher moves on to another declaration of the same written type.
NextItem ==
  /\ phase = "checked"
  /\ nchecked < MaxItems
  /\ \E d \in DeclarationsOf({item.ty}) :
       /\ d # item
       /\ item' = d
  /\ fixed' = FALSE
  /\ phase' = "pending"
  /\ calls' = <<>>
  /\ visited' = <<>>
  /\ diags' = <<>>
  /\ UNCHANGED <<pass, nchecked>>

Next ==
  \/ CheckItem
  \/ CheckTraitItem
  \/ CheckImplItem
  \/ ApplyFix
  \/ NextItem

Spec == Init /\ [][Next]_vars

(***************************************************************************)
(* Vocabulary of the properties                                            *)
(***************************************************************************)
Range(q) == {q[i] : i \in DOMAIN q}

\* Span a lies within span b.
Inside(a, b) == b[1] <= a[1] /\ a[2] <= b[2]

RECURSIVE NodesOf(_)
\* Every node of a syntax tree.
NodesOf(n) == {n} \cup UNION {NodesOf(n.elems[i]) : i \in DOMAIN n.elems}

RECURSIVE TreeNodes(_)
\* The nodes of a syntax tree in which every shape other than reference,
\* array, slice and tuple is terminal.
TreeNodes(n) ==
  {n} \cup (IF n.kind \in {"Rptr", "Array", "Slice", "Tup"}
            THEN UNION {TreeNodes(n.elems[i]) : i \in DOMAIN n.elems}
            ELSE {})

Checked == phase = "checked"

\* The declaration is a module-level constant or static written by hand.
EligibleItem ==
  /\ item.container = "none"
  /\ ~item.from_expansion
  /\ item.kind \in {"Const", "Static"}

Root == Ast(item)
Src == Render(item.ty)

\* The findings whose suggested edit replaces node n.
FindingsFor(n) == {i \in DOMAIN diags : diags[i].suggestions[1].span = n.span}

\* The findings of ds, in order, whose annotation lies within span sp.
Within(ds, sp) == LET In(d) == Inside(d.span, sp) IN SelectSeq(ds, In)

RECURSIVE ConcatWithin(_, _, _)
ConcatWithin(ds, elems, i) ==
  IF i > Len(elems) THEN <<>>
  ELSE Within(ds, elems[i].span) \o ConcatWithin(ds, elems, i + 1)

Pos(q, x) == CHOOSE k \in DOMAIN q : q[k] = x

\* Source text src with the text of span sp replaced by text.
Splice(src, sp, text) ==
  SubSeq(src, 1, sp[1]) \o text \o SubSeq(src, sp[2] + 1, Len(src))

\* A reference with a static lifetime over a named type, slice, array or tuple.
Redundant(n) ==
  /\ n.kind = "Rptr"
  /\ n.lifetime.some
  /\ n.lifetime.name = "'static"
  /\ n.elems[1].kind \in {"Path", "Slice", "Array", "Tup"}

Str == Path("str")
StaticRef(t) == Rptr("'static", t)

(***************************************************************************)
(* C1: once a hand-written constant or static has been checked, every      *)
(* reference node of its type with a static lifetime over a named type,    *)
(* slice, array or tuple has exactly one finding, every other node has     *)
(* none, and every finding belongs to a reference node.                    *)
(***************************************************************************)
C1_OneFindingPerRedundantReference ==
  (Checked /\ EligibleItem) =>
    /\ \A n \in TreeNodes(Root) :
         Cardinality(FindingsFor(n)) = IF Redundant(n) THEN 1 ELSE 0
    /\ \A i \in DOMAIN diags :
         \E n \in TreeNodes(Root) : n.kind = "Rptr" /\ i \in FindingsFor(n)

\* &'static &'static str: the outer reference is passed over, the inner linted.
C1_Witness ==
  /\ Checked
  /\ EligibleItem
  /\ item.ty = StaticRef(StaticRef(Str))
  /\ Len(diags) = 1
  /\ diags[1].span = <<3, 4>>

(***************************************************************************)
(* C2: after the suggestions of a check have been applied (every flagged   *)
(* reference has lost its static lifetime), checking the declaration       *)
(* again emits no finding.                                                 *)
(***************************************************************************)
C2_Idempotent == (Checked /\ fixed) => diags = <<>>

\* [&[&str]; N], obtained from [&'static [&'static str]; N], re-checked.
C2_Witness ==
  /\ Checked
  /\ fixed
  /\ EligibleItem
  /\ item.ty = Array(Rptr(NoLt, Slice(Rptr(NoLt, Str))))
  /\ Len(visited) = 5
  /\ diags = <<>>

(***************************************************************************)
(* C3: a declaration from a macro expansion, an associated constant of a   *)
(* trait or impl block, and an item that is neither a constant nor a       *)
(* static get no visit_type call and no finding; a hand-written constant   *)
(* or static gets exactly one visit_type call, on its declared type.       *)
(***************************************************************************)
C3_Eligibility ==
  Checked =>
    IF EligibleItem
    THEN /\ Len(calls) = 1
         /\ calls[1].ty = Root.span
         /\ visited # <<>>
         /\ visited[1] = Root.span
    ELSE /\ calls = <<>>
         /\ visited = <<>>
         /\ diags = <<>>

\* The documentation example inside a macro expansion.
C3_Witness ==
  /\ Checked
  /\ item.container = "none"
  /\ item.kind = "Const"
  /\ item.from_expansion
  /\ item.ty = DocExampleType
  /\ diags = <<>>

(***************************************************************************)
(* C4: checking &'static [(&'static str, &'static str, fn(&Bar) -> bool)]  *)
(* on a constant.                                                          *)
(***************************************************************************)
DocExampleChecked ==
  /\ Checked
  /\ EligibleItem
  /\ item.kind = "Const"
  /\ item.ty = DocExampleType

DocOuterSugg ==
  <<"&", "[", "(", "&", "'static", "str", ",", "&", "'static", "str", ",",
    "fn", "(", "&", "Bar", ")", "->", "bool", ")", "]">>

\* A finding annotated at ann that replaces span sp by text is emitted.
DocFinding(ann, sp, text) ==
  \E i \in DOMAIN diags :
    /\ diags[i].span = ann
    /\ diags[i].suggestions[1].span = sp
    /\ diags[i].suggestions[1].sugg = text

DocFindings ==
  /\ DocFinding(<<1, 2>>, <<0, 21>>, DocOuterSugg)
  /\ DocFinding(<<5, 6>>, <<4, 7>>, <<"&", "str">>)
  /\ DocFinding(<<9, 10>>, <<8, 11>>, <<"&", "str">>)
  /\ \A i \in DOMAIN diags : ~Inside(diags[i].span, <<12, 19>>)

\* C4 as stated: the example yields two findings (the outer one, one for
\* each &'static str) and none for the fn element.
C4_Original == DocExampleChecked => (Len(diags) = 2 /\ DocFindings)

\* C4 as amended: the example yields three findings, in this order: the
\* outer one, the first &'static str, the second &'static str; none for
\* the fn element.
C4_ThreeFindings ==
  DocExampleChecked =>
    /\ Len(diags) = 3
    /\ DocFindings
    /\ diags[1].span = <<1, 2>>
    /\ diags[2].span = <<5, 6>>
    /\ diags[3].span = <<9, 10>>

C4_Witness == DocExampleChecked /\ Len(diags) = 3 /\ Len(visited) = 8

(***************************************************************************)
(* C5: the message of every finding.                                       *)
(***************************************************************************)
\* C5 as stated: the messages are "Constants have by default a static
\* lifetime." and "Statics have by default a static lifetime.".
C5_Original ==
  Checked =>
    \A i \in DOMAIN diags :
      diags[i].msg = IF item.kind = "Const"
                     THEN <<"Constants have by default a static lifetime.">>
                     ELSE <<"Statics have by default a static lifetime.">>

\* C5 as amended: every finding of a constant carries "Constants have by
\* default a <grave>'static<grave> lifetime", every finding of a static
\* "Statics have by default a <grave>'static<grave> lifetime", whatever its
\* nesting depth.
C5_Messages ==
  Checked =>
    \A i \in DOMAIN diags :
      diags[i].msg =
        IF item.kind = "Const"
        THEN <<"Constants have by default a ", "U+0060", "'static", "U+0060",
               " lifetime">>
        ELSE <<"Statics have by default a ", "U+0060", "'static", "U+0060",
               " lifetime">>

\* A static with findings at two nesting depths.
C5_Witness ==
  /\ Checked
  /\ EligibleItem
  /\ item.kind = "Static"
  /\ item.ty = NestedArrayType
  /\ Len(diags) = 2

(***************************************************************************)
(* C6: for every tuple node the findings inside it are the concatenation,  *)
(* in element order, of the findings inside each element, which are the    *)
(* findings of visiting that element alone; every element is visited, in   *)
(* element order.  (&'static str, &'static str) yields two findings, the   *)
(* first for the first element, each with its own spans and text.          *)
(***************************************************************************)
ReasonOf(d) == IF d.kind = "Const" THEN ConstReason ELSE StaticReason

C6_TupleElementsInOrder ==
  (Checked /\ EligibleItem) =>
    /\ \A t \in TreeNodes(Root) :
         t.kind = "Tup" =>
           /\ Within(diags, t.span) = ConcatWithin(diags, t.elems, 1)
           /\ \A i \in DOMAIN t.elems :
                /\ t.elems[i].span \in Range(visited)
                /\ Within(diags, t.elems[i].span)
                     = visit_type(t.elems[i], Cx(item), ReasonOf(item)).diags
           /\ \A i, j \in DOMAIN t.elems :
                i < j => Pos(visited, t.elems[i].span)
                           < Pos(visited, t.elems[j].span)
    /\ item.ty = PairType =>
         /\ Len(diags) = 2
         /\ diags[1].span = <<2, 3>>
         /\ diags[1].suggestions[1].span = <<1, 4>>
         /\ diags[1].suggestions[1].sugg = <<"&", "str">>
         /\ diags[2].span = <<6, 7>>
         /\ diags[2].suggestions[1].span = <<5, 8>>
         /\ diags[2].suggestions[1].sugg = <<"&", "str">>

C6_Witness ==
  /\ Checked
  /\ EligibleItem
  /\ item.ty = PairType
  /\ Len(diags) = 2
  /\ diags[1].span[1] < diags[2].span[1]

(***************************************************************************)
(* C7: [&'static [&'static str]; N] yields exactly two findings, the outer *)
(* reference's first; the outer suggestion is "&" followed by the          *)
(* unmodified text of the slice, the inner one is "&str".                  *)
(***************************************************************************)
C7_NestedThroughAggregates ==
  (Checked /\ EligibleItem /\ item.ty = NestedArrayType) =>
    /\ Len(diags) = 2
    /\ diags[1].span = <<2, 3>>
    /\ diags[1].suggestions[1].span = <<1, 8>>
    /\ diags[1].suggestions[1].sugg = <<"&", "[", "&", "'static", "str", "]">>
    /\ diags[1].suggestions[1].sugg = <<"&">> \o SubSeq(Src, 4, 8)
    /\ diags[2].span = <<5, 6>>
    /\ diags[2].suggestions[1].span = <<4, 7>>
    /\ diags[2].suggestions[1].sugg = <<"&", "str">>

C7_Witness ==
  /\ Checked
  /\ EligibleItem
  /\ item.kind = "Const"
  /\ item.ty = NestedArrayType
  /\ Len(diags) = 2
  /\ Len(visited) = 5

(***************************************************************************)
(* C8: whatever was checked before, a hook call leaves the pass as it was  *)
(* created and produces exactly what checking the declaration alone, on a  *)
(* fresh pass, produces.                                                   *)
(***************************************************************************)
CheckedAlone(d) ==
  CASE d.container = "none" ->
         check_item(RedundantStaticLifetimes, Cx(d), d)
    [] d.container = "trait" ->
         check_trait_item(RedundantStaticLifetimes, Cx(d), d)
    [] d.container = "impl" ->
         check_impl_item(RedundantStaticLifetimes, Cx(d), d)

C8_Stateless ==
  /\ pass = RedundantStaticLifetimes
  /\ Checked =>
       /\ diags = CheckedAlone(item).diags
       /\ calls = CheckedAlone(item).calls
       /\ visited = CheckedAlone(item).visited

\* A static checked second, after a different declaration.
C8_Witness ==
  /\ Checked
  /\ nchecked = 2
  /\ ~fixed
  /\ EligibleItem
  /\ item.kind = "Static"
  /\ diags # <<>>

(***************************************************************************)
(* C9: every finding belongs to a reference R with a lifetime: it is       *)
(* annotated at R's lifetime (not at R), and carries exactly one           *)
(* suggestion, MachineApplicable, replacing the whole of R by "&" followed *)
(* by the source text of R's inner type; on the text, the edit removes     *)
(* exactly the 'static token.                                              *)
(***************************************************************************)
C9_FindingShape ==
  Checked =>
    \A i \in DOMAIN diags :
      \E R \in NodesOf(Root) :
        /\ R.kind = "Rptr"
        /\ R.lifetime.some
        /\ diags[i].span = R.lifetime.span
        /\ diags[i].span # R.span
        /\ SubSeq(Src, diags[i].span[1] + 1, diags[i].span[2]) = <<"'static">>
        /\ Len(diags[i].suggestions) = 1
        /\ LET sg == diags[i].suggestions[1]
               inner == R.elems[1]
           IN /\ sg.span = R.span
              /\ sg.sugg = <<"&">> \o SubSeq(Src, inner.span[1] + 1, inner.span[2])
              /\ sg.applicability = "MachineApplicable"
              /\ Splice(Src, sg.span, sg.sugg) = Splice(Src, diags[i].span, <<>>)

\* &'static [&'static str]: a finding whose inner text holds an annotation.
C9_Witness ==
  /\ Checked
  /\ EligibleItem
  /\ item.ty = StaticRef(Slice(StaticRef(Str)))
  /\ Len(diags) = 2
  /\ diags[1].suggestions[1].sugg = <<"&", "[", "&", "'static", "str", "]">>

(***************************************************************************)
(* C10: visit_type descends into the inner type of every reference it      *)
(* visits and below no node other than array, slice, tuple or reference; a *)
(* reference to a reference gets no finding while the inner one is judged  *)
(* on its own; a finding precedes the findings of its inner subtree; every *)
(* node is visited at most once and every reference gets at most one       *)
(* finding.                                                                *)
(***************************************************************************)
C10_Traversal ==
  (Checked /\ EligibleItem) =>
    /\ visited # <<>>
    /\ visited[1] = Root.span
    /\ Range(visited) \subseteq {n.span : n \in NodesOf(Root)}
    /\ Len(visited) = Cardinality(Range(visited))
    /\ \A n \in NodesOf(Root) :
         n.span \in Range(visited) =>
           /\ n.kind = "Rptr" => n.elems[1].span \in Range(visited)
           /\ n.kind \notin {"Array", "Slice", "Tup", "Rptr"} =>
                /\ \A m \in NodesOf(n) : m # n => m.span \notin Range(visited)
                /\ \A i \in DOMAIN diags : ~Inside(diags[i].span, n.span)
           /\ (n.kind = "Rptr" /\ n.elems[1].kind = "Rptr") =>
                /\ FindingsFor(n) = {}
                /\ Cardinality(FindingsFor(n.elems[1]))
                     = IF Redundant(n.elems[1]) THEN 1 ELSE 0
           /\ Cardinality(FindingsFor(n)) <= 1
    /\ \A i, j \in DOMAIN diags :
         (i # j /\ Inside(diags[j].suggestions[1].span,
                          diags[i].suggestions[1].span)) => i < j

\* &'a &&'static str: two references without a finding above a linted one.
C10_Witness ==
  /\ Checked
  /\ EligibleItem
  /\ item.ty = Rptr("'a", Rptr(NoLt, StaticRef(Str)))
  /\ Len(visited) = 4
  /\ Len(diags) = 1
  /\ diags[1].span = <<4, 5>>
====
